---- MODULE Spec2Model ----
(***************************************************************************)
(* Model of the real-time telephony audio bridge of dklpp/cxc_hackathon:   *)
(*   - vad/voice_activity_detector.py  VoiceActivityDetector               *)
(*   - twilio/twilio_voice_server.py   TwilioVoiceServer.handle_call       *)
(*   - tests/outbound_calling/realtime_server.py  TwilioElevenLabsBridge   *)
(*                                                                         *)
(* Time is the wall clock read by time.time(); it is the variable now and  *)
(* it advances only by the environment.  Probabilities and the detector    *)
(* threshold are in tenths (5 is 0.5).  Audio samples are kept in units of *)
(* SampleUnit samples, each unit tagged with the inbound frame it came     *)
(* from and the amplitude of that frame.                                   *)
(***************************************************************************)
EXTENDS Integers, Sequences, FiniteSets, TLC

VARIABLES
    now,            \* time.time(), in ms
    vad,            \* the VoiceActivityDetector object (a record of its fields)
    lastOp,         \* the operation that produced the current state
    chunks,         \* process_audio_chunk calls made so far
    nHi,            \* chunks at or above threshold since construction / reset()
    loRun,          \* consecutive chunks below threshold processed last
    everEnded,      \* is_speech_ended() returned True since the last reset()
    dipEnded,       \* is_speech_ended() returned True since silence began
    resumed,        \* the last chunk resumed speech out of a short dip
    lastChunk,      \* the argument of the last process_audio_chunk call
    \* TwilioVoiceServer and one handle_call
    server,         \* the TwilioVoiceServer fields handle_call reads
    pc,             \* where handle_call stands: "recv" or the await it is in
    inbox,          \* messages Twilio sent that handle_call has not received
    stream_sid,     \* stream_sid
    audio_buffer,   \* audio_buffer
    vad_chunk_buffer, \* vad_chunk_buffer
    fed,            \* the chunks given to vad.process_audio_chunk since the last
                    \* vad.reset() of handle_call, in order
    turn_counter,   \* turn_counter
    send_queue,     \* chunks _send_audio_to_twilio still has to send
    outbox,         \* messages sent on the telephone socket
    frames,         \* media events Twilio has sent so far
    dispatched,     \* the frames of each audio_buffer given to _process_turn
    resets,         \* vad.reset() calls made by handle_call
    startFrame,     \* the frame that made is_speech_started() true, or 0
    \* TwilioElevenLabsBridge and one handle_twilio_connection; it shares
    \* inbox, outbox, stream_sid and frames with the above
    eleven_inbox,   \* messages the AI service sent, not yet received
    eleven_sent,    \* messages sent on the AI-service socket
    pumps,          \* where twilio_to_elevenlabs, elevenlabs_to_twilio and
                    \* the handler that gathers them stand
    ai,             \* the AI service: the response it generates, messages sent
    \* what the telephone side did on the connection
    starts,         \* the streamSid of each start event received, in order
    turn_log,       \* how each _process_turn call ended, in order
    corrupted,      \* media events with a corrupted payload Twilio has sent
    conversation_history, \* conversation_history: the role of each message
    \* the pure operations: one constructor call, one chunking call
    ctor,           \* the arguments of VoiceActivityDetector(...) and its outcome
    chunking,       \* the arguments of chunk_audio / the framing loop, its result
    codec           \* the arguments of one AudioProcessor codec call, its result

vadVars == <<vad, chunks, nHi, loRun, everEnded, dipEnded, resumed, lastChunk>>

callVars == <<server, pc, inbox, stream_sid, audio_buffer, vad_chunk_buffer, fed,
              turn_counter, send_queue, outbox, frames, dispatched, resets,
              startFrame>>

bridgeVars == <<eleven_inbox, eleven_sent, pumps, ai>>

logVars == <<starts, turn_log, corrupted, conversation_history>>

pureVars == <<ctor, chunking, codec>>

vars == <<now, lastOp, vadVars, callVars, bridgeVars, logVars, pureVars>>

\* Python's None for the optional time stamps and the energy threshold.
None == -1

(***************************************************************************)
(* Bounds of the model.                                                    *)
(***************************************************************************)
MaxTime == 9            \* the clock stops advancing here
MaxChunks == 5          \* process_audio_chunk calls in one run (SpecVad)
ShortSpeechMs == 3      \* min_speech_duration_ms given to the constructor
ShortSilenceMs == 4     \* min_silence_duration_ms given to the constructor
ChunkMs == 1            \* audio duration of one chunk fed to the detector
CallMaxTime == 4        \* the clock stops advancing here during a call

(***************************************************************************)
(* Program constants.                                                      *)
(***************************************************************************)
DefaultThreshold == 5           \* threshold: float = 0.5
energy_history_size == 50       \* frames for baseline
MinHistory == 10                \* len(self.energy_history) >= 10
Int16Scale == 32768             \* astype(np.float32) / 32768.0
EnergyScale == 10 * 10          \* energy thresholds are kept in 1/100 rms unit
FixedEnergyThreshold == Int16Scale  \* 0.01 of full scale, times EnergyScale

Methods == {"silero", "webrtc", "energy"}

(***************************************************************************)
(* Helpers: numpy on sequences of integers.                                *)
(***************************************************************************)
\* np.max / np.min of a non-empty list
SeqMax(s) == CHOOSE x \in {s[i] : i \in DOMAIN s} :
                \A y \in {s[i] : i \in DOMAIN s} : y <= x
SeqMin(s) == CHOOSE x \in {s[i] : i \in DOMAIN s} :
                \A y \in {s[i] : i \in DOMAIN s} : x <= y

\* the k-th smallest element of s, counting repetitions
Kth(s, k) ==
    CHOOSE x \in {s[i] : i \in DOMAIN s} :
        /\ Cardinality({i \in DOMAIN s : s[i] < x}) < k
        /\ k <= Cardinality({i \in DOMAIN s : s[i] <= x})

\* twice np.median(s): the middle element, or the mean of the two middle ones
Median2(s) ==
    LET n == Len(s)
    IN  IF n % 2 = 1 THEN 2 * Kth(s, (n + 1) \div 2)
        ELSE Kth(s, n \div 2) + Kth(s, n \div 2 + 1)

(***************************************************************************)
(* VoiceActivityDetector                                                   *)
(***************************************************************************)

\* _init_backend with the outcome of loading the backend: "ok",
\* "import_error" (ImportError) or "error" (any other exception).
\* _init_silero catches Exception, _init_webrtc only ImportError.
init_backend(method, backend) ==
    IF method = "silero" /\ backend # "ok" THEN "energy"
    ELSE IF method = "webrtc" /\ backend = "import_error" THEN "energy"
    ELSE method

\* the constructor raises instead of returning a detector
ConstructorRaises(method, backend) ==
    \/ method \notin Methods
    \/ method = "webrtc" /\ backend = "error"

\* __init__
VoiceActivityDetector(method, threshold, min_speech, min_silence, backend) ==
    [ method                  |-> init_backend(method, backend),
      threshold               |-> threshold,
      min_speech_duration_ms  |-> min_speech,
      min_silence_duration_ms |-> min_silence,
      speech_started          |-> FALSE,
      speech_start_time       |-> None,
      last_speech_time        |-> None,
      silence_start_time      |-> None,
      energy_threshold        |-> None,
      energy_history          |-> <<>> ]

\* _update_state with the start time overwritten by every speech chunk
update_state_restart(v, speech_prob, t) ==
    IF speech_prob >= v.threshold
    THEN LET v1 == [v EXCEPT !.last_speech_time = t,
                             !.silence_start_time = None]
         IN  IF ~v.speech_started
             THEN IF v.speech_start_time = None
                  THEN [v1 EXCEPT !.speech_start_time = t]
                  ELSE IF t - v.speech_start_time >= v.min_speech_duration_ms
                       THEN [v1 EXCEPT !.speech_started = TRUE]
                       ELSE v1
             ELSE [v1 EXCEPT !.speech_start_time = t]
    ELSE IF v.speech_started /\ v.silence_start_time = None
         THEN [v EXCEPT !.silence_start_time = t]
         ELSE v

\* _update_state starting the silence timer whether or not speech started
update_state_silence_always(v, speech_prob, t) ==
    IF speech_prob >= v.threshold
    THEN LET v1 == [v EXCEPT !.last_speech_time = t,
                             !.silence_start_time = None]
         IN  IF ~v.speech_started
             THEN IF v.speech_start_time = None
                  THEN [v1 EXCEPT !.speech_start_time = t]
                  ELSE IF t - v.speech_start_time >= v.min_speech_duration_ms
                       THEN [v1 EXCEPT !.speech_started = TRUE]
                       ELSE v1
             ELSE v1
    ELSE IF v.silence_start_time = None
         THEN [v EXCEPT !.silence_start_time = t]
         ELSE v

\* _update_state taking speech as over at the first chunk below threshold
update_state_silence_stops(v, speech_prob, t) ==
    IF speech_prob >= v.threshold
    THEN LET v1 == [v EXCEPT !.last_speech_time = t,
                             !.silence_start_time = None]
         IN  IF ~v.speech_started
             THEN IF v.speech_start_time = None
                  THEN [v1 EXCEPT !.speech_start_time = t]
                  ELSE IF t - v.speech_start_time >= v.min_speech_duration_ms
                       THEN [v1 EXCEPT !.speech_started = TRUE]
                       ELSE v1
             ELSE v1
    ELSE IF v.speech_started
         THEN [v EXCEPT !.speech_started = FALSE, !.speech_start_time = None]
         ELSE v

\* _update_state(speech_prob) at time.time() = t
update_state(v, speech_prob, t) ==
    IF speech_prob >= v.threshold
    THEN LET v1 == [v EXCEPT !.last_speech_time = t,
                             !.silence_start_time = None]
         IN  IF ~v.speech_started
             THEN IF v.speech_start_time = None
                  THEN [v1 EXCEPT !.speech_start_time = t]
                  ELSE IF t - v.speech_start_time >= v.min_speech_duration_ms
                       THEN [v1 EXCEPT !.speech_started = TRUE]
                       ELSE v1
             ELSE v1
    ELSE IF v.speech_started /\ v.silence_start_time = None
         THEN [v EXCEPT !.silence_start_time = t]
         ELSE v

\* energy_history after appending rms and dropping the oldest beyond the size
EnergyHistoryAfter(v, rms) ==
    LET h == Append(v.energy_history, rms)
    IN  IF Len(h) > energy_history_size THEN Tail(h) ELSE h

\* the dynamic threshold baseline + threshold * range, or the fixed 0.01
EnergyThresholdFor(v, h) ==
    IF Len(h) >= MinHistory
    THEN (EnergyScale \div 2) * Median2(h)
         + (EnergyScale \div 10) * v.threshold * (SeqMax(h) - SeqMin(h))
    ELSE FixedEnergyThreshold

\* the probability each backend returns for a chunk
SpeechProb(v, chunk) ==
    IF v.method = "silero" THEN chunk.silero
    ELSE IF v.method = "webrtc"
    THEN (IF chunk.webrtc = "speech" THEN 10
          ELSE IF chunk.webrtc = "nonspeech" THEN 0 ELSE 5)
    ELSE LET h == EnergyHistoryAfter(v, chunk.rms)
         IN  IF EnergyScale * chunk.rms > EnergyThresholdFor(v, h)
             THEN 10 ELSE 0

process_silero(v, chunk, t) == update_state(v, SpeechProb(v, chunk), t)

process_webrtc(v, chunk, t) == update_state(v, SpeechProb(v, chunk), t)

process_energy(v, chunk, t) ==
    LET h == EnergyHistoryAfter(v, chunk.rms)
        v1 == [v EXCEPT !.energy_history = h,
                        !.energy_threshold = EnergyThresholdFor(v, h)]
    IN  update_state(v1, SpeechProb(v, chunk), t)

process_audio_chunk(v, chunk, t) ==
    IF v.method = "silero" THEN process_silero(v, chunk, t)
    ELSE IF v.method = "webrtc" THEN process_webrtc(v, chunk, t)
    ELSE process_energy(v, chunk, t)

is_speech_started(v) == v.speech_started

is_speech_ended(v, t) ==
    IF ~v.speech_started THEN FALSE
    ELSE IF v.silence_start_time = None THEN FALSE
    ELSE t - v.silence_start_time >= v.min_silence_duration_ms

\* reset() without the branch for the energy method
reset_keep_history(v) ==
    [v EXCEPT !.speech_started = FALSE,
              !.speech_start_time = None,
              !.last_speech_time = None,
              !.silence_start_time = None]

\* reset()
reset(v) ==
    LET v1 == [v EXCEPT !.speech_started = FALSE,
                        !.speech_start_time = None,
                        !.last_speech_time = None,
                        !.silence_start_time = None]
    IN  IF v.method = "energy"
        THEN [v1 EXCEPT !.energy_history = <<>>, !.energy_threshold = None]
        ELSE v1

(***************************************************************************)
(* SpecVad: one detector driven by arbitrary calls at arbitrary times.     *)
(***************************************************************************)
SileroProbs == {0, 4, 5, 10}
WebrtcResults == {"speech", "nonspeech", "error"}
RmsLevels == {0, 300, 16000}

NoChunk == [silero |-> 0, webrtc |-> "nonspeech", rms |-> 0]

ChunkInputs(method) ==
    IF method = "silero" THEN {[NoChunk EXCEPT !.silero = p] : p \in SileroProbs}
    ELSE IF method = "webrtc"
    THEN {[NoChunk EXCEPT !.webrtc = w] : w \in WebrtcResults}
    ELSE {[NoChunk EXCEPT !.rms = r] : r \in RmsLevels}

\* no observation of the detector has been made
InitObs ==
    /\ lastOp = "init"
    /\ chunks = 0
    /\ nHi = 0
    /\ loRun = 0
    /\ everEnded = FALSE
    /\ dipEnded = FALSE
    /\ resumed = FALSE
    /\ lastChunk = NoChunk

\* vad = None in handle_call
NoVad == VoiceActivityDetector("None", 0, 0, 0, "ok")

\* no call is connected
NoCall ==
    /\ pc = "recv"
    /\ inbox = <<>>
    /\ stream_sid = "None"
    /\ audio_buffer = <<>>
    /\ vad_chunk_buffer = <<>>
    /\ fed = <<>>
    /\ turn_counter = 0
    /\ send_queue = 0
    /\ outbox = <<>>
    /\ frames = 0
    /\ dispatched = <<>>
    /\ resets = 0
    /\ startFrame = 0

\* no bridge connection
NoBridge ==
    /\ eleven_inbox = <<>>
    /\ eleven_sent = <<>>
    /\ pumps = [t2e |-> "off", e2t |-> "off", handler |-> "off",
                twilio_open |-> FALSE]
    /\ ai = [resp |-> 0, n |-> 0, open |-> FALSE]

\* nothing was received or sent on a telephone socket, and
\* conversation_history holds the system prompt only
NoLog ==
    /\ starts = <<>>
    /\ turn_log = <<>>
    /\ corrupted = 0
    /\ conversation_history = <<"system">>

\* no constructor call and no chunking call is observed
NoCtor == [method |-> "None", backend |-> "ok", threshold |-> 0,
           done |-> FALSE, raised |-> FALSE]

NoChunking == [op |-> "None", p |-> <<>>, ms |-> 0, rate |-> 0, size |-> 0,
               done |-> FALSE, raised |-> FALSE, out |-> <<>>]

NoCodec == [op |-> "None", dtype |-> "None", p |-> <<>>, text |-> <<>>,
            rate |-> 0, done |-> FALSE, raised |-> FALSE, out |-> <<>>]

NoPure ==
    /\ ctor = NoCtor
    /\ chunking = NoChunking
    /\ codec = NoCodec

\* no TwilioVoiceServer: the detector is used on its own
NoServer == [vad_method |-> "None", vad_threshold |-> 0,
             vad_min_silence_ms |-> 0, min_speech_duration_ms |-> 0]

InitVad ==
    /\ now = 0
    /\ vad \in {VoiceActivityDetector(m, DefaultThreshold, ShortSpeechMs,
                                       ShortSilenceMs, "ok") : m \in Methods}
    /\ InitObs
    /\ server = NoServer
    /\ NoCall
    /\ NoBridge
    /\ NoLog
    /\ NoPure

\* the last instant of a run: of a call, or of a detector on its own
TimeBound == IF server = NoServer THEN MaxTime ELSE CallMaxTime

\* the wall clock advances
Tick ==
    /\ UNCHANGED <<bridgeVars, pureVars>>
    /\ pumps.handler = "off"
    /\ now < TimeBound
    /\ now' = now + 1
    /\ lastOp' = "tick"
    /\ UNCHANGED <<vadVars, callVars, logVars>>

VadProcess ==
    /\ UNCHANGED <<bridgeVars, pureVars>>
    /\ chunks < MaxChunks
    /\ \E c \in ChunkInputs(vad.method) :
          LET hi == SpeechProb(vad, c) >= vad.threshold
              v2 == process_audio_chunk(vad, c, now)
          IN  /\ vad' = v2
              /\ lastOp' = IF hi THEN "chunk_hi" ELSE "chunk_lo"
              /\ nHi' = IF hi THEN nHi + 1 ELSE nHi
              /\ loRun' = IF hi \/ ~vad.speech_started THEN 0 ELSE loRun + 1
              /\ dipEnded' = IF vad.silence_start_time = None
                                 /\ v2.silence_start_time # None
                              THEN FALSE ELSE dipEnded
              /\ lastChunk' = c
              /\ resumed' = (/\ hi
                             /\ vad.speech_started
                             /\ vad.silence_start_time # None
                             /\ now - vad.silence_start_time
                                  < vad.min_silence_duration_ms)
    /\ chunks' = chunks + 1
    /\ UNCHANGED <<now, everEnded, callVars, logVars>>

VadPollStarted ==
    /\ UNCHANGED <<bridgeVars, pureVars>>
    /\ lastOp' = "is_speech_started"
    /\ UNCHANGED <<now, vadVars, callVars, logVars>>

VadPollEnded ==
    /\ UNCHANGED <<bridgeVars, pureVars>>
    /\ lastOp' = "is_speech_ended"
    /\ everEnded' = (everEnded \/ is_speech_ended(vad, now))
    /\ dipEnded' = (dipEnded \/ is_speech_ended(vad, now))
    /\ UNCHANGED <<now, vad, chunks, nHi, loRun, resumed, lastChunk, callVars, logVars>>

VadReset ==
    /\ UNCHANGED <<bridgeVars, pureVars>>
    /\ vad' = reset(vad)
    /\ lastOp' = "reset"
    /\ nHi' = 0
    /\ loRun' = 0
    /\ everEnded' = FALSE
    /\ dipEnded' = FALSE
    /\ resumed' = FALSE
    /\ lastChunk' = NoChunk
    /\ UNCHANGED <<now, chunks, callVars, logVars>>

NextVad == Tick \/ VadProcess \/ VadPollStarted \/ VadPollEnded \/ VadReset

SpecVad == InitVad /\ [][NextVad]_vars

(***************************************************************************)
(* Claims about the detector (SpecVad).                                    *)
(***************************************************************************)

\* C1: as long as the chunks at or above threshold since construction or the
\* last reset() are fewer than the chunks min_speech_duration_ms spans,
\* is_speech_started() is false.
C1_StartDebounce ==
    nHi * ChunkMs < vad.min_speech_duration_ms => ~is_speech_started(vad)

\* the chunks below threshold processed since speech was last heard
InDip == vad.speech_started /\ loRun > 0

\* C2: after speech started and the chunks dropped below threshold, a poll of
\* is_speech_ended() is true exactly when min_silence_duration_ms worth of
\* consecutive below-threshold chunks has been processed.
C2_EndDebounce ==
    (lastOp = "is_speech_ended" /\ InDip)
        => (is_speech_ended(vad, now)
               <=> loRun * ChunkMs >= vad.min_silence_duration_ms)

\* a chunk at or above threshold is processed after a dip shorter than
\* min_silence_duration_ms
ResumeStep ==
    /\ lastOp' = "chunk_hi"
    /\ vad.speech_started
    /\ vad.silence_start_time # None
    /\ now - vad.silence_start_time < vad.min_silence_duration_ms

\* C3: when speech resumes after a dip shorter than min_silence_duration_ms,
\* no poll of is_speech_ended() made during the dip returned true, speech
\* stays started and _speech_start_time keeps its value.
C3_ResumeBeforeEnd ==
    [][ResumeStep =>
         /\ ~dipEnded
         /\ ~is_speech_ended(vad, now)
         /\ is_speech_started(vad')
         /\ vad'.speech_start_time = vad.speech_start_time
         /\ ~is_speech_ended(vad', now')]_vars

C3_Witness ==
    /\ resumed
    /\ lastOp = "chunk_hi"
    /\ vad.speech_started
    /\ vad.speech_start_time < vad.last_speech_time

\* C4: once is_speech_ended() has returned true, it is true at every later
\* poll until reset() is called.
C4_EndedTerminal == everEnded => is_speech_ended(vad, now)

\* reset() leaves the detector idle with all timers cleared
IdleAfter(v) ==
    /\ ~v.speech_started
    /\ v.speech_start_time = None
    /\ v.last_speech_time = None
    /\ v.silence_start_time = None

\* C5 as stated: reset() returns to IDLE and leaves energy_history and
\* energy_threshold unchanged, for every strategy.
C5_ResetKeepsBaseline ==
    [][lastOp' = "reset" =>
         /\ IdleAfter(vad')
         /\ vad'.energy_history = vad.energy_history
         /\ vad'.energy_threshold = vad.energy_threshold]_vars

\* C5 amended: reset() returns to IDLE, keeps the configuration, and clears
\* energy_history and energy_threshold when the method is 'energy'; with the
\* other methods it changes nothing else.
C5_ResetClearsEnergyBaseline ==
    [][lastOp' = "reset" =>
         /\ IdleAfter(vad')
         /\ vad'.method = vad.method
         /\ vad'.threshold = vad.threshold
         /\ vad'.min_speech_duration_ms = vad.min_speech_duration_ms
         /\ vad'.min_silence_duration_ms = vad.min_silence_duration_ms
         /\ IF vad.method = "energy"
            THEN vad'.energy_history = <<>> /\ vad'.energy_threshold = None
            ELSE /\ vad'.energy_history = vad.energy_history
                 /\ vad'.energy_threshold = vad.energy_threshold]_vars

C5_Witness ==
    /\ lastOp = "reset"
    /\ vad.method = "energy"
    /\ chunks > 0
    /\ vad.energy_history = <<>>
    /\ IdleAfter(vad)

(***************************************************************************)
(* TwilioVoiceServer.handle_call                                           *)
(***************************************************************************)
TWILIO_SAMPLE_RATE == 8000      \* Twilio uses 8kHz mu-law
VAD_SAMPLE_RATE == 16000        \* VAD works better at 16kHz
VAD_CHUNK_SIZE == 512           \* samples per process_audio_chunk call
TwilioFrameBytes == 160         \* 20ms at 8kHz = 160 bytes

\* bounds of the call model
MaxFrames == 12         \* media events Twilio sends in one call
MaxInbox == 1           \* messages waiting on the socket
CallSpeechMs == 1       \* min_speech_duration_ms of the call's detector
CallSilenceMs == 1      \* vad_min_silence_ms of the server
WelcomeChunks == 1      \* 20 ms chunks of the welcome audio
ResponseChunks == 2     \* 20 ms chunks of a synthesized response
HighAmp == 16000        \* sample amplitude of a loud inbound frame
MaxStarts == 2          \* start events Twilio sends on one connection
MaxCorrupted == 1       \* media events with a corrupted payload in one call
LastRestartFrame == 0   \* a further start event comes after at most this many frames
LastCorruptedFrame == 2 \* the corrupted payload is in one of the first frames

RECURSIVE GCD(_, _)
GCD(a, b) == IF b = 0 THEN a ELSE GCD(b, a % b)

\* samples of one inbound frame after resample_audio to VAD_SAMPLE_RATE
FrameSamples == (TwilioFrameBytes * VAD_SAMPLE_RATE) \div TWILIO_SAMPLE_RATE

\* buffers hold runs of SampleUnit equal samples
SampleUnit == GCD(FrameSamples, VAD_CHUNK_SIZE)
FrameUnits == FrameSamples \div SampleUnit
ChunkUnits == VAD_CHUNK_SIZE \div SampleUnit

RECURSIVE ISqrtIn(_, _, _)
ISqrtIn(n, lo, hi) ==
    IF lo >= hi THEN lo
    ELSE LET mid == (lo + hi + 1) \div 2
         IN  IF mid * mid <= n THEN ISqrtIn(n, mid, hi)
             ELSE ISqrtIn(n, lo, mid - 1)

\* floor of the square root, for 0 <= n <= Int16Scale^2
ISqrt(n) == ISqrtIn(n, 0, Int16Scale)

RECURSIVE SumSq(_, _)
SumSq(units, n) ==
    IF units = <<>> THEN 0
    ELSE (Head(units).a * Head(units).a) \div n + SumSq(Tail(units), n)

\* np.sqrt(np.mean(audio ** 2)) of a chunk, in int16 units
Rms(units) == ISqrt(SumSq(units, Len(units)))

\* the frames a buffer of sample units holds, in order
FramesOf(units) ==
    LET first == {i \in DOMAIN units : i = 1 \/ units[i - 1].f # units[i].f}
    IN  [k \in 1..Cardinality(first) |->
            units[CHOOSE i \in first :
                     Cardinality({j \in first : j <= i}) = k].f]

\* the payload of a media event: well-formed base64 of one frame ("ok");
\* base64 whose padding is wrong, on which b64decode raises binascii.Error
\* ("bad_padding"); base64 of no byte at all, on which resample_audio
\* raises ("empty"); base64 with characters outside the alphabet in place of
\* some groups, which b64decode discards without an error ("stray")
Payloads == {"ok", "bad_padding", "empty", "stray"}

\* b64decode, convert_from_mulaw or resample_audio raises on the payload
DecodeRaises(m) == m.b64 \in {"bad_padding", "empty"}

\* the sample units b64decode leaves of one frame
PayloadUnits(m) == IF m.b64 = "stray" THEN FrameUnits - 1 ELSE FrameUnits

\* b64decode + convert_from_mulaw + resample_audio of one media payload
DecodeFrame(m) == [i \in 1..PayloadUnits(m) |-> [f |-> m.f, a |-> m.a]]

\* what the backend is told about a chunk: the model's answer and the audio
ChunkOf(units, oracle) == [oracle EXCEPT !.rms = Rms(units)]

\* the loop giving the detector all it has once VAD_CHUNK_SIZE samples wait
VadLoop_whole_buffer(v, buf, oracle, t) ==
    IF Len(buf) >= ChunkUnits
    THEN [vad |-> process_audio_chunk(v, ChunkOf(buf, oracle), t),
          buf |-> <<>>, fed |-> <<buf>>]
    ELSE [vad |-> v, buf |-> buf, fed |-> <<>>]

\* while len(vad_chunk_buffer) >= VAD_CHUNK_SIZE: process one chunk
RECURSIVE VadLoop(_, _, _, _)
VadLoop(v, buf, oracle, t) ==
    IF Len(buf) >= ChunkUnits
    THEN LET vad_chunk == SubSeq(buf, 1, ChunkUnits)
             r == VadLoop(process_audio_chunk(v, ChunkOf(vad_chunk, oracle), t),
                          SubSeq(buf, ChunkUnits + 1, Len(buf)), oracle, t)
         IN  [r EXCEPT !.fed = <<vad_chunk>> \o @]
    ELSE [vad |-> v, buf |-> buf, fed |-> <<>>]

\* what the backend may answer for a chunk in a call
Oracles(method) == IF method = "energy" THEN {NoChunk} ELSE ChunkInputs(method)

Msg(e, sid, f, a) == [event |-> e, sid |-> sid, f |-> f, a |-> a, b64 |-> "ok"]

\* a media event with the given payload
Media(f, a, b64) == [Msg("media", "None", f, a) EXCEPT !.b64 = b64]

\* the streamSid of the k-th start event of a connection
Sid(k) == <<"MZ1", "MZ2", "MZ3", "MZ4">>[k]

\* stream_sid keeps the streamSid of the first start event
StreamSidOf_first(current, msg) == IF current = "None" THEN msg.sid ELSE current

\* stream_sid = data['start']['streamSid']
StreamSidOf(current, msg) == msg.sid

StartSent == stream_sid # "None" \/ \E i \in DOMAIN inbox : inbox[i].event = "start"

\* the start events Twilio has sent on the connection
StartsSent ==
    Len(starts) + Cardinality({i \in DOMAIN inbox : inbox[i].event = "start"})
StopSent == pc = "done" \/ \E i \in DOMAIN inbox : inbox[i].event = "stop"

InTurn == pc \in {"stt", "llm", "tts", "send"}

InitCall ==
    /\ now = 0
    /\ vad = NoVad
    /\ InitObs
    /\ server \in {[vad_method |-> m, vad_threshold |-> DefaultThreshold,
                     vad_min_silence_ms |-> CallSilenceMs,
                     min_speech_duration_ms |-> CallSpeechMs]
                    : m \in {"silero"}}
    /\ NoCall
    /\ NoBridge
    /\ NoLog
    /\ NoPure

\* Twilio puts the next message of the stream on the socket
TwilioSends ==
    /\ UNCHANGED <<bridgeVars, pureVars>>
    /\ server # NoServer
    /\ Len(inbox) < MaxInbox
    /\ ~StopSent
    /\ \/ /\ StartsSent < MaxStarts
          /\ StartSent => frames <= LastRestartFrame
          /\ inbox' = Append(inbox, Msg("start", Sid(StartsSent + 1), 0, 0))
          /\ UNCHANGED <<frames, corrupted>>
       \/ /\ StartSent
          /\ frames < MaxFrames
          /\ \E a \in (IF server.vad_method = "energy" THEN {0, HighAmp} ELSE {0}),
                b \in Payloads :
                /\ b # "ok" => (corrupted < MaxCorrupted
                                  /\ frames < LastCorruptedFrame)
                /\ inbox' = Append(inbox, Media(frames + 1, a, b))
                /\ corrupted' = IF b = "ok" THEN corrupted ELSE corrupted + 1
          /\ frames' = frames + 1
       \/ /\ StartSent
          /\ inbox' = Append(inbox, Msg("stop", "None", 0, 0))
          /\ UNCHANGED <<frames, corrupted>>
    /\ lastOp' = "twilio"
    /\ UNCHANGED <<now, vadVars, server, pc, stream_sid, audio_buffer,
                   vad_chunk_buffer, fed, turn_counter, send_queue, outbox,
                   dispatched, resets, startFrame, starts, turn_log,
                   conversation_history>>

\* event == 'start': the detector is created, then the welcome is awaited
HandleStart ==
    /\ UNCHANGED <<bridgeVars, pureVars>>
    /\ server # NoServer
    /\ pc = "recv"
    /\ inbox # <<>>
    /\ Head(inbox).event = "start"
    /\ inbox' = Tail(inbox)
    /\ stream_sid' = StreamSidOf(stream_sid, Head(inbox))
    /\ starts' = Append(starts, Head(inbox).sid)
    /\ vad' = VoiceActivityDetector(server.vad_method, server.vad_threshold,
                                    server.min_speech_duration_ms,
                                    server.vad_min_silence_ms, "ok")
    /\ audio_buffer' = <<>>
    /\ startFrame' = 0
    /\ pc' = "welcome_tts"
    /\ lastOp' = "start"
    /\ UNCHANGED <<now, chunks, nHi, loRun, everEnded, dipEnded, resumed, lastChunk,
                   server, vad_chunk_buffer, fed, turn_counter, send_queue, outbox,
                   frames, dispatched, resets, turn_log, corrupted,
                   conversation_history>>

\* event == 'media' up to the await of _process_turn; an exception raised
\* while the payload is decoded is caught by "Error processing media frame"
HandleMedia ==
    /\ UNCHANGED <<bridgeVars, pureVars, logVars>>
    /\ server # NoServer
    /\ pc = "recv"
    /\ inbox # <<>>
    /\ Head(inbox).event = "media"
    /\ inbox' = Tail(inbox)
    /\ lastOp' = "media"
    /\ IF vad = NoVad \/ DecodeRaises(Head(inbox))
       THEN UNCHANGED <<vad, pc, audio_buffer, vad_chunk_buffer, fed, dispatched,
                        startFrame>>
       ELSE \E oracle \in Oracles(vad.method) :
              LET pcm == DecodeFrame(Head(inbox))
                  ab == audio_buffer \o pcm
                  r == VadLoop(vad, vad_chunk_buffer \o pcm, oracle, now)
              IN  /\ audio_buffer' = ab
                  /\ vad_chunk_buffer' = r.buf
                  /\ fed' = fed \o r.fed
                  /\ vad' = r.vad
                  /\ startFrame' = IF ~vad.speech_started /\ r.vad.speech_started
                                    THEN Head(inbox).f ELSE startFrame
                  /\ IF is_speech_ended(r.vad, now)
                     THEN /\ dispatched' = Append(dispatched, FramesOf(ab))
                          /\ pc' = "stt"
                     ELSE UNCHANGED <<dispatched, pc>>
    /\ UNCHANGED <<now, chunks, nHi, loRun, everEnded, dipEnded, resumed, lastChunk,
                   server, stream_sid, turn_counter, send_queue, outbox,
                   frames, resets>>

\* event == 'stop'
HandleStop ==
    /\ UNCHANGED <<bridgeVars, pureVars>>
    /\ UNCHANGED logVars
    /\ server # NoServer
    /\ pc = "recv"
    /\ inbox # <<>>
    /\ Head(inbox).event = "stop"
    /\ inbox' = Tail(inbox)
    /\ pc' = "done"
    /\ lastOp' = "stop"
    /\ UNCHANGED <<now, vadVars, server, stream_sid, audio_buffer,
                   vad_chunk_buffer, fed, turn_counter, send_queue, outbox, frames,
                   dispatched, resets, startFrame>>

\* the reset after a turn without audio_buffer = []
TurnReturns_keep_buffer ==
    /\ vad' = reset(vad)
    /\ audio_buffer' = audio_buffer
    /\ vad_chunk_buffer' = <<>>
    /\ fed' = <<>>
    /\ turn_counter' = turn_counter + 1
    /\ resets' = resets + 1
    /\ startFrame' = 0
    /\ pc' = "recv"

\* _process_turn returned: "Reset for next turn"
TurnReturns ==
    /\ vad' = reset(vad)
    /\ audio_buffer' = <<>>
    /\ vad_chunk_buffer' = <<>>
    /\ fed' = <<>>
    /\ turn_counter' = turn_counter + 1
    /\ resets' = resets + 1
    /\ startFrame' = 0
    /\ pc' = "recv"

\* _process_turn returned after STT found no text, or at "Turn complete"
TurnEnds(outcome) ==
    /\ TurnReturns
    /\ turn_log' = Append(turn_log, outcome)

\* a collaborator raised and _process_turn had no except clause: the
\* exception is caught by handle_call's "Error processing media frame" and
\* the lines after the await are skipped
TurnFails_uncaught ==
    /\ pc' = "recv"
    /\ turn_log' = Append(turn_log, "error")
    /\ UNCHANGED <<vad, audio_buffer, vad_chunk_buffer, fed, turn_counter, resets,
                   startFrame>>

\* a collaborator raised: "Error processing turn" is printed and
\* _process_turn returns
TurnFails ==
    /\ TurnReturns
    /\ turn_log' = Append(turn_log, "error")

\* _send_welcome_message up to _send_audio_to_twilio: text_to_speech,
\* convert_mp3_to_wav and load_wav in a worker thread
WelcomeTts ==
    /\ UNCHANGED <<bridgeVars, pureVars, logVars>>
    /\ pc = "welcome_tts"
    /\ \E ok \in BOOLEAN :
          IF ok THEN pc' = "welcome_send" /\ send_queue' = WelcomeChunks
          ELSE pc' = "recv" /\ send_queue' = 0
    /\ lastOp' = "welcome_tts"
    /\ UNCHANGED <<now, vadVars, server, inbox, stream_sid, audio_buffer,
                   vad_chunk_buffer, fed, turn_counter, outbox, frames, dispatched,
                   resets, startFrame>>

\* transcribe_audio in a worker thread; the text is appended to
\* conversation_history before the LLM is called
Stt ==
    /\ UNCHANGED <<bridgeVars, pureVars>>
    /\ pc = "stt"
    /\ lastOp' = "stt"
    /\ \E res \in {"text", "empty", "error"} :
          IF res = "text"
          THEN /\ pc' = "llm"
               /\ conversation_history' = Append(conversation_history, "user")
               /\ UNCHANGED <<vad, audio_buffer, vad_chunk_buffer, fed,
                              turn_counter, resets, startFrame, turn_log>>
          ELSE IF res = "empty"
          THEN TurnEnds("empty") /\ UNCHANGED conversation_history
          ELSE TurnFails /\ UNCHANGED conversation_history
    /\ UNCHANGED <<now, chunks, nHi, loRun, everEnded, dipEnded, resumed, lastChunk,
                   server, inbox, stream_sid, send_queue, outbox, frames,
                   dispatched, starts, corrupted>>

\* openai_client.chat.completions.create in a worker thread
Llm ==
    /\ UNCHANGED <<bridgeVars, pureVars>>
    /\ pc = "llm"
    /\ lastOp' = "llm"
    /\ \E ok \in BOOLEAN :
          IF ok
          THEN /\ pc' = "tts"
               /\ conversation_history'
                    = Append(conversation_history, "assistant")
               /\ UNCHANGED <<vad, audio_buffer, vad_chunk_buffer, fed,
                              turn_counter, resets, startFrame, turn_log>>
          ELSE TurnFails /\ UNCHANGED conversation_history
    /\ UNCHANGED <<now, chunks, nHi, loRun, everEnded, dipEnded, resumed, lastChunk,
                   server, inbox, stream_sid, send_queue, outbox, frames,
                   dispatched, starts, corrupted>>

\* text_to_speech, convert_mp3_to_wav and load_wav in a worker thread
Tts ==
    /\ UNCHANGED <<bridgeVars, pureVars, conversation_history>>
    /\ pc = "tts"
    /\ lastOp' = "tts"
    /\ \E ok \in BOOLEAN :
          IF ok
          THEN /\ pc' = "send"
               /\ send_queue' = ResponseChunks
               /\ UNCHANGED <<vad, audio_buffer, vad_chunk_buffer, fed,
                              turn_counter, resets, startFrame, turn_log>>
          ELSE TurnFails /\ send_queue' = 0
    /\ UNCHANGED <<now, chunks, nHi, loRun, everEnded, dipEnded, resumed, lastChunk,
                   server, inbox, stream_sid, outbox, frames, dispatched,
                   starts, corrupted>>

\* the response a chunk sent now belongs to: the answer of turn
\* turn_counter + 1, or the welcome of the last start event (0 and below)
CurrentResponse ==
    IF pc = "welcome_send" THEN 1 - Len(starts) ELSE turn_counter + 1

\* the 20 ms chunks of the response being sent
ResponseLen == IF pc = "send" THEN ResponseChunks ELSE WelcomeChunks

\* the loop of _send_audio_to_twilio walking the audio from its end
ChunkIndex_reversed(len, queue) == queue

\* the chunk "for i in range(0, len(mulaw_audio), chunk_size)" is at when
\* queue chunks of len are still to send
ChunkIndex(len, queue) == len - queue + 1

\* one iteration of the loop of _send_audio_to_twilio: send, then sleep 20 ms
SendChunk ==
    /\ UNCHANGED <<bridgeVars, pureVars, conversation_history>>
    /\ pc \in {"welcome_send", "send"}
    /\ send_queue > 0
    /\ lastOp' = "send"
    /\ outbox' = Append(outbox, [event |-> "media", sid |-> stream_sid,
                                  resp |-> CurrentResponse,
                                  idx |-> ChunkIndex(ResponseLen, send_queue)])
    /\ send_queue' = send_queue - 1
    /\ IF send_queue > 1
       THEN UNCHANGED <<pc, vad, audio_buffer, vad_chunk_buffer, fed, turn_counter,
                        resets, startFrame, turn_log>>
       ELSE IF pc = "send" THEN TurnEnds("ok")
       ELSE /\ pc' = "recv"
            /\ UNCHANGED <<vad, audio_buffer, vad_chunk_buffer, fed, turn_counter,
                           resets, startFrame, turn_log>>
    /\ UNCHANGED <<now, chunks, nHi, loRun, everEnded, dipEnded, resumed, lastChunk,
                   server, inbox, stream_sid, frames, dispatched, starts,
                   corrupted>>

NextCall ==
    \/ Tick \/ TwilioSends \/ HandleStart \/ HandleMedia \/ HandleStop
    \/ WelcomeTts \/ Stt \/ Llm \/ Tts \/ SendChunk

SpecCall == InitCall /\ [][NextCall]_vars

(***************************************************************************)
(* Claims about handle_call (SpecCall).                                    *)
(***************************************************************************)

\* the set of frames of an utterance
FrameSet(u) == {u[i] : i \in DOMAIN u}

\* the utterance given to the _process_turn call in progress
CurrentUtterance == dispatched[Len(dispatched)]

\* C6: the utterance passed to _process_turn begins at the frame that made
\* is_speech_started() true and holds every frame received from then on: no
\* audio received while is_speech_started() was false is in it.
C6_UtteranceFromSpeechStart ==
    pc = "stt" =>
        /\ startFrame > 0
        /\ CurrentUtterance
             = [i \in 1..Len(CurrentUtterance) |-> startFrame + i - 1]

\* C7: while _process_turn is in progress, a media event waiting on the socket
\* can be received, decoded and fed to the detector.
C7_InboundNotBlocked ==
    (InTurn /\ inbox # <<>> /\ Head(inbox).event = "media")
        => ENABLED HandleMedia

\* C8: no inbound frame is in two dispatched utterances; every observed
\* speech end gave exactly one _process_turn call, and when that call has
\* returned the detector is reset and audio_buffer is empty before the next
\* media event is processed.
C8_NoSampleTwice ==
    /\ \A i, j \in DOMAIN dispatched :
          i < j => FrameSet(dispatched[i]) \cap FrameSet(dispatched[j]) = {}
    /\ Len(dispatched) = turn_counter + (IF InTurn THEN 1 ELSE 0)
    /\ resets = turn_counter
    /\ ~InTurn =>
          \A i \in DOMAIN dispatched :
             FrameSet(dispatched[i]) \cap FrameSet(FramesOf(audio_buffer)) = {}
    /\ (lastOp \in {"stt", "llm", "tts", "send"} /\ pc = "recv"
          /\ turn_counter > 0) =>
          /\ audio_buffer = <<>>
          /\ vad_chunk_buffer = <<>>
          /\ IdleAfter(vad)
          /\ ~is_speech_ended(vad, now)

C8_Witness ==
    /\ Len(dispatched) = 2
    /\ turn_counter = 2
    /\ pc = "recv"
    /\ dispatched[1] # <<>>
    /\ dispatched[2] # <<>>

(***************************************************************************)
(* SpecScenario: handle_call with the energy detector on a fixed stream of *)
(* 20 ms frames arriving in real time.                                     *)
(***************************************************************************)
DefaultMinSpeechMs == 250       \* min_speech_duration_ms: int = 250
DefaultMinSilenceMs == 500      \* min_silence_duration_ms: int = 500
FrameMs == 20                   \* one inbound frame is 20 ms of audio

\* the stream: 50 silent frames, 30 loud frames, 25 silent frames
ScenarioScript == <<[n |-> 50, a |-> 0], [n |-> 30, a |-> HighAmp],
                    [n |-> 25, a |-> 0]>>

ScenarioLen == ScenarioScript[1].n + ScenarioScript[2].n + ScenarioScript[3].n

\* the amplitude of frame k of the stream
ScenarioAmp(k) ==
    IF k <= ScenarioScript[1].n THEN ScenarioScript[1].a
    ELSE IF k <= ScenarioScript[1].n + ScenarioScript[2].n
    THEN ScenarioScript[2].a
    ELSE ScenarioScript[3].a

\* the call has started and the welcome is over
InitScenario ==
    /\ now = 0
    /\ InitObs
    /\ server = [vad_method |-> "energy", vad_threshold |-> DefaultThreshold,
                 vad_min_silence_ms |-> DefaultMinSilenceMs,
                 min_speech_duration_ms |-> DefaultMinSpeechMs]
    /\ vad = VoiceActivityDetector("energy", DefaultThreshold,
                                   DefaultMinSpeechMs, DefaultMinSilenceMs,
                                   "ok")
    /\ pc = "recv"
    /\ inbox = <<>>
    /\ stream_sid = "MZ1"
    /\ audio_buffer = <<>>
    /\ vad_chunk_buffer = <<>>
    /\ fed = <<>>
    /\ turn_counter = 0
    /\ send_queue = 0
    /\ outbox = <<>>
    /\ frames = 0
    /\ dispatched = <<>>
    /\ resets = 0
    /\ startFrame = 0
    /\ NoBridge
    /\ starts = <<"MZ1">>
    /\ turn_log = <<>>
    /\ corrupted = 0
    /\ conversation_history = <<"system">>
    /\ NoPure

\* the next frame of the stream arrives, 20 ms after the previous one
ScenarioDeliver ==
    /\ UNCHANGED <<bridgeVars, pureVars>>
    /\ pc = "recv"
    /\ inbox = <<>>
    /\ frames < ScenarioLen
    /\ now' = now + FrameMs
    /\ frames' = frames + 1
    /\ inbox' = <<Msg("media", "None", frames + 1, ScenarioAmp(frames + 1))>>
    /\ lastOp' = "twilio"
    /\ UNCHANGED <<vadVars, server, pc, stream_sid, audio_buffer,
                   vad_chunk_buffer, fed, turn_counter, send_queue, outbox,
                   dispatched, resets, startFrame, logVars>>

NextScenario == ScenarioDeliver \/ HandleMedia

SpecScenario == InitScenario /\ [][NextScenario]_vars

\* every frame of the stream has been received and handled
ScenarioDone == frames = ScenarioLen /\ inbox = <<>>

\* C9: the stream of 50 silent, 30 loud and 25 silent frames gives exactly
\* one dispatched utterance, which holds the loud frames up to frame 80 and
\* nothing before frame 12, and exactly one vad.reset() once the turn is over.
C9_ScenarioOneUtterance ==
    ScenarioDone =>
        /\ Len(dispatched) = 1
        /\ pc = "recv" => resets = 1
        /\ \A k \in 1..ScenarioLen :
              /\ (k > ScenarioScript[1].n + 13
                    /\ k <= ScenarioScript[1].n + ScenarioScript[2].n)
                   => k \in FrameSet(dispatched[1])
              /\ k < 12 => k \notin FrameSet(dispatched[1])

(***************************************************************************)
(* TwilioElevenLabsBridge.handle_twilio_connection: the two pumps          *)
(***************************************************************************)
BridgeMaxFrames == 2    \* media events Twilio sends on a bridged call
MaxAiMsgs == 3          \* messages the AI service sends

AiMsg(type, resp, b64, id) ==
    [type |-> type, resp |-> resp, b64 |-> b64, id |-> id]

\* a message sent on the telephone socket
Out(e, sid, resp, idx) == [event |-> e, sid |-> sid, resp |-> resp, idx |-> idx]

\* the payload of a Twilio media event in a bridged call
BridgePayloads == {"ok", "bad_padding"}

\* audio_base_64 of an audio event: PCM16 audio ("ok"), absent or "" ("empty"),
\* or a string on which b64decode raises, or an odd number of bytes, on which
\* audioop.ratecv and audioop.lin2ulaw raise ("bad")
AudioPayloads == {"ok", "empty", "bad"}

\* the AI-service socket is connected, its metadata event was received and
\* asyncio.gather started both pumps
InitBridge ==
    /\ now = 0
    /\ vad = NoVad
    /\ InitObs
    /\ server = NoServer
    /\ NoCall
    /\ eleven_inbox = <<>>
    /\ eleven_sent = <<>>
    /\ pumps = [t2e |-> "run", e2t |-> "run", handler |-> "gather",
                twilio_open |-> TRUE]
    /\ ai = [resp |-> 1, n |-> 0, open |-> TRUE]
    /\ NoLog
    /\ NoPure

BridgeStopSent ==
    pumps.t2e = "stopped" \/ \E i \in DOMAIN inbox : inbox[i].event = "stop"

\* Twilio puts the next message of the stream on the socket
BridgeTwilioSends ==
    /\ UNCHANGED pureVars
    /\ pumps.handler # "off"
    /\ pumps.twilio_open
    /\ Len(inbox) < MaxInbox
    /\ ~BridgeStopSent
    /\ \/ /\ StartsSent < MaxStarts
          /\ StartSent => frames <= LastRestartFrame
          /\ inbox' = Append(inbox, Msg("start", Sid(StartsSent + 1), 0, 0))
          /\ UNCHANGED <<frames, corrupted>>
       \/ /\ frames < BridgeMaxFrames
          /\ \E b \in BridgePayloads :
                /\ b # "ok" => corrupted < MaxCorrupted
                /\ inbox' = Append(inbox, Media(frames + 1, 0, b))
                /\ corrupted' = IF b = "ok" THEN corrupted ELSE corrupted + 1
          /\ frames' = frames + 1
       \/ /\ StartSent
          /\ inbox' = Append(inbox, Msg("stop", "None", 0, 0))
          /\ UNCHANGED <<frames, corrupted>>
    /\ lastOp' = "twilio"
    /\ UNCHANGED <<now, vadVars, server, pc, stream_sid, audio_buffer,
                   vad_chunk_buffer, fed, turn_counter, send_queue, outbox,
                   dispatched, resets, startFrame, bridgeVars, starts,
                   turn_log, conversation_history>>

\* Twilio closes the telephone socket: after it sent the stop event, or
\* without one when the connection drops at the end of the stream
TwilioCloses ==
    /\ UNCHANGED <<pureVars, logVars>>
    /\ pumps.handler # "off"
    /\ pumps.twilio_open
    /\ BridgeStopSent \/ (frames = BridgeMaxFrames /\ inbox = <<>>)
    /\ pumps' = [pumps EXCEPT !.twilio_open = FALSE]
    /\ lastOp' = "twilio_close"
    /\ UNCHANGED <<now, vadVars, callVars, eleven_inbox, eleven_sent, ai>>

\* the AI service sends a message: audio of the response it generates or of
\* an earlier one still in flight, a ping, a transcript, or the interruption
\* of the current response
ElevenSends ==
    /\ UNCHANGED <<pureVars, logVars>>
    /\ pumps.handler # "off"
    /\ ai.open
    /\ ai.n < MaxAiMsgs
    /\ Len(eleven_inbox) < MaxInbox
    /\ \/ /\ \E r \in 1..ai.resp, b \in AudioPayloads :
                eleven_inbox' = Append(eleven_inbox, AiMsg("audio", r, b, 0))
          /\ ai' = [ai EXCEPT !.n = @ + 1]
       \/ /\ eleven_inbox' = Append(eleven_inbox, AiMsg("ping", 0, "empty", ai.n + 1))
          /\ ai' = [ai EXCEPT !.n = @ + 1]
       \/ /\ eleven_inbox' = Append(eleven_inbox,
                                     AiMsg("agent_response", ai.resp, "empty", 0))
          /\ ai' = [ai EXCEPT !.n = @ + 1]
       \/ /\ eleven_inbox' = Append(eleven_inbox,
                                     AiMsg("interruption", ai.resp, "empty", 0))
          /\ ai' = [ai EXCEPT !.n = @ + 1, !.resp = @ + 1]
    /\ lastOp' = "eleven"
    /\ UNCHANGED <<now, vadVars, callVars, eleven_sent, pumps>>

\* the AI service closes its socket
ElevenCloses ==
    /\ UNCHANGED <<pureVars, logVars>>
    /\ pumps.handler # "off"
    /\ ai.open
    /\ ai' = [ai EXCEPT !.open = FALSE]
    /\ lastOp' = "eleven_close"
    /\ UNCHANGED <<now, vadVars, callVars, eleven_inbox, eleven_sent, pumps>>

T2EReady(e) ==
    /\ pumps.t2e = "run"
    /\ inbox # <<>>
    /\ Head(inbox).event = e
    /\ inbox' = Tail(inbox)

\* twilio_to_elevenlabs: event == "start"
T2EStart ==
    /\ UNCHANGED pureVars
    /\ T2EReady("start")
    /\ stream_sid' = StreamSidOf(stream_sid, Head(inbox))
    /\ starts' = Append(starts, Head(inbox).sid)
    /\ lastOp' = "t2e_start"
    /\ UNCHANGED <<now, vadVars, server, pc, audio_buffer, vad_chunk_buffer, fed,
                   turn_counter, send_queue, outbox, frames, dispatched,
                   resets, startFrame, bridgeVars, turn_log, corrupted,
                   conversation_history>>

\* twilio_to_elevenlabs: event == "media"; b64decode or eleven_ws.send may
\* raise, and nothing in the pump catches it
T2EMedia ==
    /\ UNCHANGED <<pureVars, logVars>>
    /\ T2EReady("media")
    /\ IF DecodeRaises(Head(inbox)) \/ ~ai.open
       THEN /\ pumps' = [pumps EXCEPT !.t2e = "raised"]
            /\ UNCHANGED eleven_sent
       ELSE /\ eleven_sent' = Append(eleven_sent, [type |-> "user_audio_chunk",
                                                   id |-> Head(inbox).f])
            /\ UNCHANGED pumps
    /\ lastOp' = "t2e_media"
    /\ UNCHANGED <<now, vadVars, server, pc, stream_sid, audio_buffer,
                   vad_chunk_buffer, fed, turn_counter, send_queue, outbox, frames,
                   dispatched, resets, startFrame, eleven_inbox, ai>>

\* twilio_to_elevenlabs: event == "stop"
T2EStop ==
    /\ UNCHANGED <<pureVars, logVars>>
    /\ T2EReady("stop")
    /\ pumps' = [pumps EXCEPT !.t2e = "stopped"]
    /\ lastOp' = "t2e_stop"
    /\ UNCHANGED <<now, vadVars, server, pc, stream_sid, audio_buffer,
                   vad_chunk_buffer, fed, turn_counter, send_queue, outbox, frames,
                   dispatched, resets, startFrame, eleven_inbox, eleven_sent,
                   ai>>

\* twilio_to_elevenlabs: "async for message in websocket" ends because the
\* telephone socket is closed and every message was received
T2EClosed ==
    /\ UNCHANGED <<pureVars, logVars>>
    /\ pumps.t2e = "run"
    /\ inbox = <<>>
    /\ ~pumps.twilio_open
    /\ pumps' = [pumps EXCEPT !.t2e = "closed"]
    /\ lastOp' = "t2e_closed"
    /\ UNCHANGED <<now, vadVars, callVars, eleven_inbox, eleven_sent, ai>>

E2TReady(types) ==
    /\ pumps.e2t = "run"
    /\ eleven_inbox # <<>>
    /\ Head(eleven_inbox).type \in types
    /\ eleven_inbox' = Tail(eleven_inbox)

\* elevenlabs_to_twilio: msg_type == "audio"; b64decode, audioop or
\* websocket.send may raise, and nothing in the pump catches it
E2TAudio ==
    /\ UNCHANGED <<pureVars, logVars>>
    /\ E2TReady({"audio"})
    /\ IF Head(eleven_inbox).b64 # "empty" /\ stream_sid # "None"
       THEN IF Head(eleven_inbox).b64 = "bad" \/ ~pumps.twilio_open
            THEN /\ pumps' = [pumps EXCEPT !.e2t = "raised"]
                 /\ UNCHANGED outbox
            ELSE /\ outbox' = Append(outbox, Out("media", stream_sid,
                                                 Head(eleven_inbox).resp, 0))
                 /\ UNCHANGED pumps
       ELSE UNCHANGED <<outbox, pumps>>
    /\ lastOp' = "e2t_audio"
    /\ UNCHANGED <<now, vadVars, server, pc, inbox, stream_sid, audio_buffer,
                   vad_chunk_buffer, fed, turn_counter, send_queue, frames,
                   dispatched, resets, startFrame, eleven_sent, ai>>

\* a pong that carries no event id
Pong_no_id(ping) == [type |-> "pong", id |-> 0]

\* {"type": "pong", "event_id": event_id}
Pong(ping) == [type |-> "pong", id |-> ping.id]

\* elevenlabs_to_twilio: msg_type == "ping"
E2TPing ==
    /\ UNCHANGED <<pureVars, logVars>>
    /\ E2TReady({"ping"})
    /\ IF ai.open
       THEN /\ eleven_sent' = Append(eleven_sent, Pong(Head(eleven_inbox)))
            /\ UNCHANGED pumps
       ELSE /\ pumps' = [pumps EXCEPT !.e2t = "raised"]
            /\ UNCHANGED eleven_sent
    /\ lastOp' = "e2t_ping"
    /\ UNCHANGED <<now, vadVars, callVars, ai>>

\* elevenlabs_to_twilio: msg_type == "agent_response" or "user_transcript"
E2TInfo ==
    /\ UNCHANGED <<pureVars, logVars>>
    /\ E2TReady({"agent_response", "user_transcript"})
    /\ lastOp' = "e2t_info"
    /\ UNCHANGED <<now, vadVars, callVars, eleven_sent, pumps, ai>>

\* elevenlabs_to_twilio: msg_type == "interruption"
E2TInterruption ==
    /\ UNCHANGED <<pureVars, logVars>>
    /\ E2TReady({"interruption"})
    /\ IF stream_sid # "None"
       THEN IF pumps.twilio_open
            THEN /\ outbox' = Append(outbox, Out("clear", stream_sid,
                                                 Head(eleven_inbox).resp, 0))
                 /\ UNCHANGED pumps
            ELSE /\ pumps' = [pumps EXCEPT !.e2t = "raised"]
                 /\ UNCHANGED outbox
       ELSE UNCHANGED <<outbox, pumps>>
    /\ lastOp' = "e2t_interruption"
    /\ UNCHANGED <<now, vadVars, server, pc, inbox, stream_sid, audio_buffer,
                   vad_chunk_buffer, fed, turn_counter, send_queue, frames,
                   dispatched, resets, startFrame, eleven_sent, ai>>

\* elevenlabs_to_twilio: "async for message in eleven_ws" ends because the
\* AI-service socket is closed and every message was received
E2TClosed ==
    /\ UNCHANGED <<pureVars, logVars>>
    /\ pumps.e2t = "run"
    /\ eleven_inbox = <<>>
    /\ ~ai.open
    /\ pumps' = [pumps EXCEPT !.e2t = "closed"]
    /\ lastOp' = "e2t_closed"
    /\ UNCHANGED <<now, vadVars, callVars, eleven_inbox, eleven_sent, ai>>

\* a pump has left its receive loop
PumpEnded(state) == state \in {"stopped", "closed", "raised"}

\* asyncio.gather re-raises the exception of a pump: "Error: ..." is printed,
\* leaving "async with" closes the AI-service socket and returning from the
\* handler closes the telephone socket, which ends the pump still running
GatherRaises ==
    /\ UNCHANGED <<pureVars, logVars>>
    /\ pumps.handler = "gather"
    /\ pumps.t2e = "raised" \/ pumps.e2t = "raised"
    /\ pumps' = [t2e |-> IF pumps.t2e = "run" THEN "closed" ELSE pumps.t2e,
                 e2t |-> IF pumps.e2t = "run" THEN "closed" ELSE pumps.e2t,
                 handler |-> "error",
                 twilio_open |-> FALSE]
    /\ ai' = [ai EXCEPT !.open = FALSE]
    /\ lastOp' = "gather_raises"
    /\ UNCHANGED <<now, vadVars, callVars, eleven_inbox, eleven_sent>>

\* asyncio.gather returns once both pumps have returned; the handler returns
\* and both sockets are closed
GatherReturns ==
    /\ UNCHANGED <<pureVars, logVars>>
    /\ pumps.handler = "gather"
    /\ pumps.t2e \in {"stopped", "closed"}
    /\ pumps.e2t = "closed"
    /\ pumps' = [pumps EXCEPT !.handler = "returned", !.twilio_open = FALSE]
    /\ ai' = [ai EXCEPT !.open = FALSE]
    /\ lastOp' = "gather_returns"
    /\ UNCHANGED <<now, vadVars, callVars, eleven_inbox, eleven_sent>>

NextBridge ==
    \/ BridgeTwilioSends \/ TwilioCloses \/ ElevenSends \/ ElevenCloses
    \/ T2EStart \/ T2EMedia \/ T2EStop \/ T2EClosed
    \/ E2TAudio \/ E2TPing \/ E2TInfo \/ E2TInterruption \/ E2TClosed
    \/ GatherRaises \/ GatherReturns

SpecBridge == InitBridge /\ [][NextBridge]_vars

\* C10: when the interruption of a response is handled, a clear event is
\* sent; if media of that response was sent before the clear, none is sent
\* after it; media of another response may follow.
C10_InterruptionClears ==
    /\ (lastOp = "e2t_interruption" /\ stream_sid # "None")
          => (outbox # <<>> /\ outbox[Len(outbox)].event = "clear")
    /\ \A h, i, j \in DOMAIN outbox :
          (/\ h < i /\ i < j
           /\ outbox[h].event = "media"
           /\ outbox[i].event = "clear"
           /\ outbox[h].resp = outbox[i].resp
           /\ outbox[j].event = "media")
             => outbox[j].resp # outbox[i].resp

(***************************************************************************)
(* SpecBridgeFair: the event loop runs every coroutine that can make a     *)
(* step.  A pump with a message to receive receives it, a pump whose       *)
(* socket is closed leaves its loop, and gather completes when it can.     *)
(* Nothing obliges Twilio or the AI service to send or to close.           *)
(***************************************************************************)
T2EStep == T2EStart \/ T2EMedia \/ T2EStop \/ T2EClosed

E2TStep == E2TAudio \/ E2TPing \/ E2TInfo \/ E2TInterruption \/ E2TClosed

GatherStep == GatherRaises \/ GatherReturns

SpecBridgeFair ==
    /\ SpecBridge
    /\ WF_vars(T2EStep)
    /\ WF_vars(E2TStep)
    /\ WF_vars(GatherStep)

\* the handler has left asyncio.gather, normally or through its except clause
HandlerReturned == pumps.handler \in {"returned", "error"}

\* C11: once twilio_to_elevenlabs has received the stop event, eventually
\* both pumps have left their receive loops and the handler has returned.
C11_StopTerminatesPumps ==
    (pumps.t2e = "stopped")
        ~> (PumpEnded(pumps.t2e) /\ PumpEnded(pumps.e2t) /\ HandlerReturned)

(***************************************************************************)
(* Claims about the error paths of handle_call (SpecCall).                 *)
(***************************************************************************)

\* handle_call receives a media event whose payload is corrupted
CorruptedMediaStep ==
    /\ server # NoServer
    /\ vad # NoVad
    /\ pc = "recv"
    /\ inbox # <<>>
    /\ Head(inbox).event = "media"
    /\ Head(inbox).b64 # "ok"
    /\ inbox' = Tail(inbox)

\* C12: a media event with a corrupted payload is dropped: the receive loop
\* goes on, and stream_sid, the detector, the buffers and turn_counter are
\* what they were.
C12_CorruptedFrameDropped ==
    [][CorruptedMediaStep =>
         /\ pc' = "recv"
         /\ stream_sid' = stream_sid
         /\ vad' = vad
         /\ turn_counter' = turn_counter
         /\ audio_buffer' = audio_buffer
         /\ vad_chunk_buffer' = vad_chunk_buffer]_vars

\* C14: a _process_turn call that ended with a failure of STT, LLM or TTS
\* was followed by vad.reset(), empty buffers and turn_counter += 1 like any
\* other, and handle_call is back in its receive loop.
C14_TurnFailureContained ==
    /\ Len(turn_log) = turn_counter
    /\ resets = turn_counter
    /\ (lastOp \in {"stt", "llm", "tts"} /\ turn_log # <<>>
          /\ turn_log[Len(turn_log)] = "error"
          /\ Len(dispatched) = Len(turn_log))
         => /\ pc = "recv"
            /\ audio_buffer = <<>>
            /\ vad_chunk_buffer = <<>>
            /\ IdleAfter(vad)

C14_Witness ==
    /\ Len(turn_log) = 2
    /\ turn_log[1] = "error"
    /\ turn_log[2] = "ok"
    /\ Len(dispatched) = 2
    /\ dispatched[2] # <<>>
    /\ pc = "recv"

(***************************************************************************)
(* SpecCallFair: handle_call makes every step it can make on its own.      *)
(* Nothing obliges STT, the LLM or TTS to answer: the requests are made    *)
(* without a timeout.                                                      *)
(***************************************************************************)
HandlerStep == HandleStart \/ HandleMedia \/ HandleStop \/ SendChunk

SpecCallFair == SpecCall /\ WF_vars(HandlerStep)

\* C15: a _process_turn call that waits for STT, the LLM or TTS eventually
\* ends, and handle_call is back in its receive loop.
C15_TurnBoundedByTimeout == (pc \in {"stt", "llm", "tts"}) ~> (pc = "recv")

(***************************************************************************)
(* Claims about the frames sent on the telephone socket.                   *)
(***************************************************************************)

\* the 20 ms chunks of response r, a welcome (0 and below) or an answer
RespLen(r) == IF r <= 0 THEN WelcomeChunks ELSE ResponseChunks

\* C18: the media events of one response are sent with increasing offset,
\* none skipped and none repeated, and a response begins only after the
\* response before it was sent completely.
C18_FramesInOrder ==
    \A i \in DOMAIN outbox :
       /\ outbox[i].event = "media"
       /\ IF i = 1 THEN outbox[i].idx = 1
          ELSE \/ /\ outbox[i].resp = outbox[i - 1].resp
                  /\ outbox[i].idx = outbox[i - 1].idx + 1
               \/ /\ outbox[i].idx = 1
                  /\ outbox[i - 1].idx = RespLen(outbox[i - 1].resp)
                  /\ \A h \in 1..(i - 1) : outbox[h].resp # outbox[i].resp

C18_Witness ==
    /\ Len(outbox) > ResponseChunks
    /\ outbox[1].resp <= 0
    /\ outbox[Len(outbox)].resp = 1
    /\ outbox[Len(outbox)].idx = ResponseChunks
    /\ ResponseChunks > 1

(***************************************************************************)
(* Claims about the error paths and the protocol of the bridge             *)
(* (SpecBridge).                                                           *)
(***************************************************************************)

\* twilio_to_elevenlabs receives a media event whose payload is corrupted
BadMediaStep ==
    /\ pumps.t2e = "run"
    /\ inbox # <<>>
    /\ Head(inbox).event = "media"
    /\ Head(inbox).b64 # "ok"
    /\ inbox' = Tail(inbox)

\* elevenlabs_to_twilio receives an audio event whose payload is corrupted
BadAudioStep ==
    /\ pumps.e2t = "run"
    /\ eleven_inbox # <<>>
    /\ Head(eleven_inbox).type = "audio"
    /\ Head(eleven_inbox).b64 = "bad"
    /\ eleven_inbox' = Tail(eleven_inbox)

\* C13: a media event or an audio event with a corrupted payload is dropped
\* (nothing is forwarded for it) and the pump that received it keeps running.
C13_BridgeDropsBadFrames ==
    [][/\ BadMediaStep => (pumps'.t2e = "run" /\ eleven_sent' = eleven_sent)
       /\ BadAudioStep => (pumps'.e2t = "run" /\ outbox' = outbox)]_vars

\* elevenlabs_to_twilio receives a ping
PingStep ==
    /\ pumps.e2t = "run"
    /\ eleven_inbox # <<>>
    /\ Head(eleven_inbox).type = "ping"
    /\ eleven_inbox' = Tail(eleven_inbox)

\* the pongs among the messages sent on the AI-service socket
Pongs(sent) == SelectSeq(sent, LAMBDA m : m.type = "pong")

\* C17: the step that receives a ping sends one pong with the ping's event
\* id on the AI-service socket (as long as that socket is open) and nothing
\* else, before the next AI-service message is received; no other step sends
\* a pong.
C17_PingPong ==
    [][/\ (PingStep /\ ai.open)
            => eleven_sent' = Append(eleven_sent,
                                     [type |-> "pong",
                                      id |-> Head(eleven_inbox).id])
       /\ Pongs(eleven_sent') # Pongs(eleven_sent) => PingStep]_vars

C17_Witness ==
    /\ lastOp = "e2t_ping"
    /\ eleven_sent # <<>>
    /\ eleven_sent[Len(eleven_sent)].type = "pong"
    /\ eleven_sent[Len(eleven_sent)].id > 0

(***************************************************************************)
(* SpecSockets: a connection handled by TwilioVoiceServer.handle_call or   *)
(* by TwilioElevenLabsBridge.handle_twilio_connection.                     *)
(***************************************************************************)
InitSockets == InitCall \/ InitBridge

NextSockets == NextCall \/ NextBridge

SpecSockets == InitSockets /\ [][NextSockets]_vars

\* C16: a message is sent on the telephone socket only after a start event
\* was received; it is a media or a clear event and it carries the streamSid
\* of the last start event received.
C16_StreamSidOnEveryFrame ==
    [][outbox' # outbox =>
         /\ starts # <<>>
         /\ Len(outbox') = Len(outbox) + 1
         /\ outbox' = Append(outbox, outbox'[Len(outbox')])
         /\ outbox'[Len(outbox')].event \in {"media", "clear"}
         /\ outbox'[Len(outbox')].sid = starts[Len(starts)]]_vars

C16_Witness ==
    /\ Len(starts) = 2
    /\ \E i, j \in DOMAIN outbox :
          /\ i < j
          /\ outbox[i].sid = starts[1]
          /\ outbox[j].sid = starts[2]
          /\ starts[1] # starts[2]

(***************************************************************************)
(* SpecCtor: one VoiceActivityDetector(...) call, whose backend loads or   *)
(* fails to load, followed by calls on the detector it returned.           *)
(***************************************************************************)

\* loading the backend succeeds, raises ImportError, or raises another
\* exception (torch.hub.load failing, webrtcvad.Vad refusing its mode)
Backends == {"ok", "import_error", "error"}

\* the threshold argument, in tenths
CtorThresholds == {3, 5, 7}

InitCtor ==
    /\ now = 0
    /\ vad = NoVad
    /\ InitObs
    /\ server = NoServer
    /\ NoCall
    /\ NoBridge
    /\ NoLog
    /\ NoPure

\* VoiceActivityDetector(method=m, threshold=th, ...)
Construct ==
    /\ ~ctor.done
    /\ \E m \in Methods, b \in Backends, th \in CtorThresholds :
          /\ ctor' = [method |-> m, backend |-> b, threshold |-> th,
                      done |-> TRUE, raised |-> ConstructorRaises(m, b)]
          /\ vad' = IF ConstructorRaises(m, b) THEN NoVad
                    ELSE VoiceActivityDetector(m, th, ShortSpeechMs,
                                               ShortSilenceMs, b)
    /\ lastOp' = "construct"
    /\ UNCHANGED <<now, chunks, nHi, loRun, everEnded, dipEnded, resumed, lastChunk,
                   callVars, bridgeVars, logVars, chunking, codec>>

\* process_audio_chunk on the detector the constructor returned
CtorProcess ==
    /\ ctor.done
    /\ ~ctor.raised
    /\ VadProcess

\* reset() on the detector the constructor returned
CtorReset ==
    /\ ctor.done
    /\ ~ctor.raised
    /\ lastOp # "reset"
    /\ VadReset

NextCtor == Construct \/ CtorProcess \/ CtorReset

SpecCtor == InitCtor /\ [][NextCtor]_vars

\* C19: a constructor call for 'silero' or 'webrtc' whose backend fails to
\* load does not raise; it returns a detector with method 'energy', which
\* starts with an empty energy history and no threshold and keeps that
\* method.
C19_FallbackNeverFails ==
    (ctor.done /\ ctor.method \in {"silero", "webrtc"} /\ ctor.backend # "ok")
        => /\ ~ctor.raised
           /\ vad.method = "energy"
           /\ lastOp = "construct"
                => (vad.energy_history = <<>> /\ vad.energy_threshold = None)

(***************************************************************************)
(* SpecChunk: one AudioProcessor.chunk_audio call, or one run of the       *)
(* framing loop of _send_audio_to_twilio, on a buffer whose elements are   *)
(* their own positions.                                                    *)
(***************************************************************************)
MaxBuf == 40            \* samples in the buffer given to chunk_audio
MaxChunkMs == 3         \* chunk_size_ms given to chunk_audio
MaxSendChunks == 2      \* whole 20 ms chunks in the audio given to the loop

MsPerSecond == 1000     \* sample_rate * chunk_size_ms / 1000

Min(a, b) == IF a <= b THEN a ELSE b

\* a buffer of n samples
Buffer(n) == [i \in 1..n |-> i]

\* int(sample_rate * chunk_size_ms / 1000)
chunk_size_samples(ms, rate) == (rate * ms) \div MsPerSecond

\* the loop without its last, shorter chunk
Slices_whole_only(data, size) ==
    [k \in 1..(Len(data) \div size) |->
        SubSeq(data, (k - 1) * size + 1, k * size)]

\* [data[i:i + size] for i in range(0, len(data), size)]
Slices(data, size) ==
    [k \in 1..((Len(data) + size - 1) \div size) |->
        SubSeq(data, (k - 1) * size + 1, Min(k * size, Len(data)))]

\* chunk_audio(audio_data, chunk_size_ms, sample_rate)
chunk_audio(audio_data, chunk_size_ms, sample_rate) ==
    Slices(audio_data, chunk_size_samples(chunk_size_ms, sample_rate))

\* chunk_size = int(TWILIO_SAMPLE_RATE * 0.02)
chunk_size == chunk_size_samples(FrameMs, TWILIO_SAMPLE_RATE)

\* the sample rates of the program's audio
ChunkRates == {TWILIO_SAMPLE_RATE, VAD_SAMPLE_RATE}

\* the lengths of the mu-law audio given to the framing loop
SendLengths ==
    {k * chunk_size + r : k \in 0..MaxSendChunks, r \in {0, 1, chunk_size - 1}}

ChunkingCall(op, n, ms, rate) ==
    [op |-> op, p |-> Buffer(n), ms |-> ms, rate |-> rate,
     size |-> chunk_size_samples(ms, rate), done |-> FALSE, raised |-> FALSE,
     out |-> <<>>]

InitChunk ==
    /\ now = 0
    /\ vad = NoVad
    /\ InitObs
    /\ server = NoServer
    /\ NoCall
    /\ NoBridge
    /\ NoLog
    /\ ctor = NoCtor
    /\ codec = NoCodec
    /\ chunking \in
         {ChunkingCall("chunk_audio", n, ms, rate) :
             n \in 0..MaxBuf, ms \in 1..MaxChunkMs, rate \in ChunkRates}
         \cup {ChunkingCall("send", n, FrameMs, TWILIO_SAMPLE_RATE) :
                  n \in SendLengths}

\* AudioProcessor.chunk_audio; range() raises ValueError on a step of 0
ChunkAudio ==
    /\ chunking.op = "chunk_audio"
    /\ ~chunking.done
    /\ chunking' =
         IF chunking.size = 0
         THEN [chunking EXCEPT !.done = TRUE, !.raised = TRUE]
         ELSE [chunking EXCEPT !.done = TRUE,
                               !.out = chunk_audio(chunking.p, chunking.ms,
                                                   chunking.rate)]
    /\ lastOp' = "chunk_audio"
    /\ UNCHANGED <<now, vadVars, callVars, bridgeVars, logVars, ctor, codec>>

\* the chunks the loop of _send_audio_to_twilio sends, in order
SendFraming ==
    /\ chunking.op = "send"
    /\ ~chunking.done
    /\ chunking' = [chunking EXCEPT !.done = TRUE,
                                    !.out = Slices(chunking.p, chunk_size)]
    /\ lastOp' = "send_framing"
    /\ UNCHANGED <<now, vadVars, callVars, bridgeVars, logVars, ctor, codec>>

NextChunk == ChunkAudio \/ SendFraming

SpecChunk == InitChunk /\ [][NextChunk]_vars

RECURSIVE Concat(_)
Concat(seqs) == IF seqs = <<>> THEN <<>> ELSE Head(seqs) \o Concat(Tail(seqs))

\* C20: the chunks returned for a buffer, concatenated in order, are the
\* buffer; every chunk but the last has the target length, and the last one
\* is not empty and not longer than the target length.  The same holds for
\* the 160-byte chunks of _send_audio_to_twilio.
C20_ChunkingComplete ==
    chunking.done =>
        /\ ~chunking.raised
        /\ Concat(chunking.out) = chunking.p
        /\ \A k \in 1..(Len(chunking.out) - 1) :
              Len(chunking.out[k]) = chunking.size
        /\ chunking.out # <<>> =>
              /\ Len(chunking.out[Len(chunking.out)]) >= 1
              /\ Len(chunking.out[Len(chunking.out)]) <= chunking.size

C20_Witness ==
    /\ chunking.done
    /\ chunking.op = "chunk_audio"
    /\ Len(chunking.out) >= 3
    /\ Len(chunking.out[Len(chunking.out)]) < chunking.size
    /\ Concat(chunking.out) = chunking.p

(***************************************************************************)
(* Claims about the state of the detector (SpecVad).                       *)
(***************************************************************************)

\* C24: _silence_start_time is set only if _speech_started is true and the
\* chunk processed last was below threshold; it is null after a chunk at or
\* above threshold and after reset().
C24_SilenceTimerOnlyInDip ==
    /\ vad.silence_start_time # None => (vad.speech_started /\ loRun > 0)
    /\ lastOp \in {"chunk_hi", "reset"} => vad.silence_start_time = None

C24_Witness ==
    /\ lastOp = "chunk_lo"
    /\ loRun >= 2
    /\ vad.speech_started
    /\ vad.silence_start_time # None
    /\ vad.silence_start_time < now

\* C25: a step that is not a process_audio_chunk or a reset() call changes no
\* field of the detector, and it changes neither what is_speech_started()
\* nor what is_speech_ended() returns: two polls between the same two calls
\* return the same value.
C25_PollsAreStable ==
    [][lastOp' \notin {"chunk_hi", "chunk_lo", "reset"} =>
         /\ vad' = vad
         /\ is_speech_started(vad') = is_speech_started(vad)
         /\ is_speech_ended(vad', now') = is_speech_ended(vad, now)]_vars

\* process_audio_chunk is called with the webrtc method on a chunk whose
\* geometry the backend refuses
WebrtcErrorStep ==
    /\ vad.method = "webrtc"
    /\ chunks' = chunks + 1
    /\ lastChunk'.webrtc = "error"

\* C26: with the webrtc method a chunk of a wrong geometry is an error: it is
\* counted neither as speech nor as silence, so the detector is what it was.
C26_BadGeometryIsError ==
    [][WebrtcErrorStep => (vad' = vad /\ nHi' = nHi)]_vars

\* C30: once is_speech_started() is true it stays true until reset(), and
\* whenever it is true _speech_start_time and _last_speech_time are set with
\* _speech_start_time <= _last_speech_time.
C30_StartedUntilReset ==
    [][/\ (is_speech_started(vad) /\ lastOp' # "reset")
            => is_speech_started(vad')
       /\ is_speech_started(vad') =>
            /\ vad'.speech_start_time # None
            /\ vad'.last_speech_time # None
            /\ vad'.speech_start_time <= vad'.last_speech_time]_vars

C30_Witness ==
    /\ is_speech_started(vad)
    /\ lastOp = "chunk_lo"
    /\ loRun > 0
    /\ vad.speech_start_time < vad.last_speech_time
    /\ vad.last_speech_time < now

(***************************************************************************)
(* Claims about the samples handle_call gives the detector (SpecCall).     *)
(***************************************************************************)

\* the samples given to the detector since the last reset, then those waiting
FedSamples == Concat(fed) \o vad_chunk_buffer

\* s is the end of t
IsSuffix(s, t) ==
    Len(s) <= Len(t) /\ SubSeq(t, Len(t) - Len(s) + 1, Len(t)) = s

\* C27: between two resets the detector is given chunks of exactly
\* VAD_CHUNK_SIZE samples; with the samples still waiting they are the
\* decoded samples in arrival order, each once; fewer than VAD_CHUNK_SIZE
\* samples wait after a media event.
C27_VadChunksExact ==
    LET x == FedSamples
    IN  /\ \A k \in DOMAIN fed : Len(fed[k]) = ChunkUnits
        /\ Len(vad_chunk_buffer) < ChunkUnits
        /\ \A i \in 1..(Len(x) - 1) : x[i].f <= x[i + 1].f
        /\ \A i \in 1..(Len(x) - FrameUnits) : x[i].f < x[i + FrameUnits].f
        /\ IsSuffix(audio_buffer, x)

C27_Witness ==
    /\ Len(fed) >= 2
    /\ vad_chunk_buffer # <<>>
    /\ fed[1][1].f # fed[1][ChunkUnits].f
    /\ fed[2][1].f = fed[1][ChunkUnits].f

\* C29: conversation_history is the system message followed by user and
\* assistant messages in strict alternation, whatever the turns did.
C29_HistoryAlternates ==
    /\ conversation_history # <<>>
    /\ conversation_history[1] = "system"
    /\ \A i \in 2..Len(conversation_history) :
          conversation_history[i] = IF i % 2 = 0 THEN "user" ELSE "assistant"

(***************************************************************************)
(* Claims about the audio the bridge forwards (SpecBridge).                *)
(***************************************************************************)

\* elevenlabs_to_twilio receives an audio event with a well-formed, non-empty
\* payload while the telephone socket is open
GoodAudioStep ==
    /\ pumps.e2t = "run"
    /\ pumps.twilio_open
    /\ eleven_inbox # <<>>
    /\ Head(eleven_inbox).type = "audio"
    /\ Head(eleven_inbox).b64 = "ok"
    /\ eleven_inbox' = Tail(eleven_inbox)

\* C28: every audio event with a non-empty payload received from the AI
\* service is forwarded as one media event on the telephone socket, in
\* arrival order, also when it arrives before the start event was processed.
C28_NoAudioLost ==
    [][GoodAudioStep =>
         /\ Len(outbox') = Len(outbox) + 1
         /\ SubSeq(outbox', 1, Len(outbox)) = outbox
         /\ outbox'[Len(outbox')].event = "media"
         /\ outbox'[Len(outbox')].resp = Head(eleven_inbox).resp]_vars

(***************************************************************************)
(* SpecCodec: one call of an AudioProcessor codec operation:               *)
(* decode_mulaw_base64 on a text, convert_to_mulaw on a buffer, or         *)
(* convert_to_mulaw followed by convert_from_mulaw.                        *)
(***************************************************************************)
MaxTextLen == 5         \* characters of the text given to decode_mulaw_base64
MaxPcmLen == 2          \* samples of the buffer given to convert_to_mulaw
MaxFloatTenths == 15    \* float samples lie within this many tenths of zero

Int16Min == -Int16Scale
Int16Max == Int16Scale - 1

\* the base64 alphabet; the value of a character is its position minus one
Base64Alphabet ==
    <<"A", "B", "C", "D", "E", "F", "G", "H", "I", "J", "K", "L", "M",
      "N", "O", "P", "Q", "R", "S", "T", "U", "V", "W", "X", "Y", "Z",
      "a", "b", "c", "d", "e", "f", "g", "h", "i", "j", "k", "l", "m",
      "n", "o", "p", "q", "r", "s", "t", "u", "v", "w", "x", "y", "z",
      "0", "1", "2", "3", "4", "5", "6", "7", "8", "9", "+", "/">>

Base64Chars == {Base64Alphabet[i] : i \in DOMAIN Base64Alphabet}

Base64Value(c) == (CHOOSE i \in DOMAIN Base64Alphabet : Base64Alphabet[i] = c) - 1

\* binascii.a2b_base64 without strict mode, in the state st after some
\* characters: a character outside the alphabet is skipped, a pad that
\* completes a quad ends the parsing, and data that ends inside a quad
\* raises binascii.Error
RECURSIVE a2b_base64(_, _)
a2b_base64(text, st) ==
    IF text = <<>>
    THEN [raised |-> st.quad_pos # 0,
          out |-> IF st.quad_pos # 0 THEN <<>> ELSE st.out]
    ELSE LET c == Head(text)
         IN  IF c = "="
             THEN IF st.quad_pos >= 2
                  THEN IF st.quad_pos + st.pads + 1 >= 4
                       THEN [raised |-> FALSE, out |-> st.out]
                       ELSE a2b_base64(Tail(text), [st EXCEPT !.pads = @ + 1])
                  ELSE a2b_base64(Tail(text), st)
             ELSE IF c \notin Base64Chars
             THEN a2b_base64(Tail(text), st)
             ELSE LET d == Base64Value(c)
                      l == st.leftchar
                  IN  a2b_base64(Tail(text),
                        IF st.quad_pos = 0
                        THEN [st EXCEPT !.pads = 0, !.quad_pos = 1,
                                        !.leftchar = d]
                        ELSE IF st.quad_pos = 1
                        THEN [st EXCEPT !.pads = 0, !.quad_pos = 2,
                                        !.leftchar = d % 16,
                                        !.out = Append(@, ((l * 4) + (d \div 16)) % 256)]
                        ELSE IF st.quad_pos = 2
                        THEN [st EXCEPT !.pads = 0, !.quad_pos = 3,
                                        !.leftchar = d % 4,
                                        !.out = Append(@, ((l * 16) + (d \div 4)) % 256)]
                        ELSE [st EXCEPT !.pads = 0, !.quad_pos = 0,
                                        !.leftchar = 0,
                                        !.out = Append(@, ((l * 64) + d) % 256)])

\* base64.b64decode(s): validate is False
b64decode(s) ==
    a2b_base64(s, [quad_pos |-> 0, leftchar |-> 0, pads |-> 0, out |-> <<>>])

\* AudioProcessor.decode_mulaw_base64
decode_mulaw_base64(base64_str) == b64decode(base64_str)

\* audioop.c: the bias and the clip of the mu-law encoder, for 16-bit samples
BIAS == 132
CLIP == 32635

\* audioop.c: seg_uend, the upper ends of the 8 segments of a 14-bit sample
seg_uend == [i \in 1..8 |-> (2 ^ (i + 5)) - 1]

\* audioop.c: st_14linear2ulaw
st_14linear2ulaw(pcm_val) ==
    LET mag == Min(IF pcm_val < 0 THEN -pcm_val ELSE pcm_val, CLIP)
                 + (BIAS \div 4)
        mask == IF pcm_val < 0 THEN 127 ELSE 255
        seg == Cardinality({i \in DOMAIN seg_uend : mag > seg_uend[i]})
    IN  IF seg >= 8 THEN mask - 127
        ELSE mask - ((seg * 16) + ((mag \div (2 ^ (seg + 1))) % 16))

\* audioop.c: st_ulaw2linear16
st_ulaw2linear16(u_val) ==
    LET u == 255 - u_val
        t == (((u % 16) * 8) + BIAS) * (2 ^ ((u % 128) \div 16))
    IN  IF u >= 128 THEN BIAS - t ELSE t - BIAS

\* audioop.lin2ulaw(pcm_bytes, 2): the encoder is given the 14 high bits
lin2ulaw(pcm) == [i \in DOMAIN pcm |-> st_14linear2ulaw(pcm[i] \div 4)]

\* audioop.ulaw2lin(mulaw_data, 2)
ulaw2lin(mulaw_data) ==
    [i \in DOMAIN mulaw_data |-> st_ulaw2linear16(mulaw_data[i])]

\* audioop.ratecv: the samples written while d >= 0
RECURSIVE ratecv_out(_, _, _, _, _)
ratecv_out(inrate, outrate, d, prev_i, cur_i) ==
    IF d >= 0
    THEN <<((prev_i * d) + (cur_i * (outrate - d))) \div outrate>>
         \o ratecv_out(inrate, outrate, d - inrate, prev_i, cur_i)
    ELSE <<>>

\* audioop.ratecv: one input sample is read while d < 0
RECURSIVE ratecv_in(_, _, _, _, _)
ratecv_in(samples, inrate, outrate, d, cur_i) ==
    IF samples = <<>> THEN <<>>
    ELSE LET d1 == d + outrate
         IN  IF d1 < 0
             THEN ratecv_in(Tail(samples), inrate, outrate, d1, Head(samples))
             ELSE ratecv_out(inrate, outrate, d1, cur_i, Head(samples))
                  \o ratecv_in(Tail(samples), inrate, outrate,
                               d1 - (inrate * ((d1 \div inrate) + 1)),
                               Head(samples))

\* audioop.ratecv(pcm_bytes, 2, 1, sample_rate, target_rate, None)[0]
ratecv(pcm, inrate, outrate) ==
    LET g == GCD(inrate, outrate)
    IN  ratecv_in(pcm, inrate \div g, outrate \div g, -(outrate \div g), 0)

\* the nearest value of the signed 16-bit range
Clamp16(x) == IF x < Int16Min THEN Int16Min
              ELSE IF x > Int16Max THEN Int16Max ELSE x

\* the value of the 16 low bits of x, as a signed number
Wrap16(x) == ((x - Int16Min) % (2 * Int16Scale)) + Int16Min

\* the sample kinds convert_to_mulaw is given: int16, a wider integer, or a
\* float, whose samples are given in tenths
Dtypes == {"int16", "int32", "float32"}

\* what the cast of a float outside the 16-bit range may give: C leaves it
\* undefined; builds give the low 16 bits, the nearest limit or Int16Min
FloatCasts == {"wrap", "saturate", "indefinite"}

\* int(x): the number a float is truncated to
Trunc(num, den) == IF num < 0 THEN -((-num) \div den) ELSE num \div den

\* (audio_data * 32767).astype(np.int16) of a float sample of x tenths, and
\* audio_data.astype(np.int16) of an integer sample x
astype_int16(x, dtype, cast) ==
    IF dtype = "float32"
    THEN LET y == Trunc(x * Int16Max, 10)
         IN  IF Int16Min <= y /\ y <= Int16Max THEN y
             ELSE IF cast = "wrap" THEN Wrap16(y)
             ELSE IF cast = "saturate" THEN Clamp16(y)
             ELSE Int16Min
    ELSE IF dtype = "int16" THEN x
    ELSE Wrap16(x)

\* AudioProcessor.convert_to_mulaw(audio_data, sample_rate, target_rate)
convert_to_mulaw(audio_data, dtype, cast, sample_rate, target_rate) ==
    LET pcm == [i \in DOMAIN audio_data |->
                   astype_int16(audio_data[i], dtype, cast)]
    IN  IF sample_rate # target_rate
        THEN lin2ulaw(ratecv(pcm, sample_rate, target_rate))
        ELSE lin2ulaw(pcm)

\* convert_from_mulaw returning the samples of the first byte only
convert_from_mulaw_first(mulaw_data) ==
    IF mulaw_data = <<>> THEN <<>> ELSE <<st_ulaw2linear16(mulaw_data[1])>>

\* AudioProcessor.convert_from_mulaw(mulaw_data)
convert_from_mulaw(mulaw_data) == ulaw2lin(mulaw_data)

\* the characters of the texts: three of the alphabet, the pad, one outside
TextChars == {"A", "Q", "/", "=", "!"}

\* the texts of n characters
Texts(n) == [1..n -> TextChars]

\* the sample values of each kind
SamplesOf(dtype) ==
    IF dtype = "int16" THEN Int16Min..Int16Max
    ELSE IF dtype = "int32"
    THEN {2 * Int16Min, Int16Min - 1, Int16Min, -1, 0, 1, Int16Max,
          Int16Max + 1, 2 * Int16Max}
    ELSE (-MaxFloatTenths)..MaxFloatTenths

\* the largest sample of each kind
TopOf(dtype) ==
    IF dtype = "int16" THEN Int16Max
    ELSE IF dtype = "int32" THEN 2 * Int16Max ELSE MaxFloatTenths

\* a buffer of n samples that begins with s
Pcm(n, s, dtype) ==
    [i \in 1..n |-> IF i % 2 = 1 THEN s ELSE TopOf(dtype) - i]

CodecCall(op, dtype, p, text, rate) ==
    [NoCodec EXCEPT !.op = op, !.dtype = dtype, !.p = p, !.text = text,
                    !.rate = rate]

InitCodec ==
    /\ now = 0
    /\ vad = NoVad
    /\ InitObs
    /\ server = NoServer
    /\ NoCall
    /\ NoBridge
    /\ NoLog
    /\ ctor = NoCtor
    /\ chunking = NoChunking
    /\ codec \in
         {CodecCall("decode", "None", <<>>, t, 0) :
             t \in UNION {Texts(n) : n \in 0..MaxTextLen}}
         \cup UNION {{CodecCall("to_mulaw", dt, Pcm(n, s, dt), <<>>, r) :
                         n \in 0..MaxPcmLen, s \in SamplesOf(dt),
                         r \in ChunkRates} : dt \in Dtypes \ {"int16"}}
         \cup {CodecCall("round_trip", "int16", Pcm(n, s, "int16"), <<>>,
                         TWILIO_SAMPLE_RATE) :
                  n \in 0..MaxPcmLen, s \in SamplesOf("int16")}

\* AudioProcessor.decode_mulaw_base64(text)
DecodeBase64 ==
    /\ codec.op = "decode"
    /\ ~codec.done
    /\ codec' = [codec EXCEPT !.done = TRUE,
                              !.raised = decode_mulaw_base64(codec.text).raised,
                              !.out = decode_mulaw_base64(codec.text).out]
    /\ lastOp' = "decode_mulaw_base64"
    /\ UNCHANGED <<now, vadVars, callVars, bridgeVars, logVars, ctor, chunking>>

\* AudioProcessor.convert_to_mulaw(p, rate, 8000)
ConvertToMulaw ==
    /\ codec.op = "to_mulaw"
    /\ ~codec.done
    /\ \E cast \in FloatCasts :
          codec' = [codec EXCEPT !.done = TRUE,
                                 !.out = convert_to_mulaw(codec.p, codec.dtype,
                                                          cast, codec.rate,
                                                          TWILIO_SAMPLE_RATE)]
    /\ lastOp' = "convert_to_mulaw"
    /\ UNCHANGED <<now, vadVars, callVars, bridgeVars, logVars, ctor, chunking>>

\* convert_from_mulaw(convert_to_mulaw(p, 8000, 8000))
RoundTrip ==
    /\ codec.op = "round_trip"
    /\ ~codec.done
    /\ codec' = [codec EXCEPT
                   !.done = TRUE,
                   !.out = convert_from_mulaw(
                             convert_to_mulaw(codec.p, codec.dtype, "wrap",
                                              codec.rate, TWILIO_SAMPLE_RATE))]
    /\ lastOp' = "round_trip"
    /\ UNCHANGED <<now, vadVars, callVars, bridgeVars, logVars, ctor, chunking>>

NextCodec == DecodeBase64 \/ ConvertToMulaw \/ RoundTrip

SpecCodec == InitCodec /\ [][NextCodec]_vars

(***************************************************************************)
(* Claims about the codec operations (SpecCodec).                          *)
(***************************************************************************)

\* text is base64: groups of 4 characters of the alphabet, the last group
\* ending with at most two pads
ValidBase64(text) ==
    /\ Len(text) % 4 = 0
    /\ \E k \in 0..2 :
          /\ k <= Len(text)
          /\ \A i \in 1..(Len(text) - k) : text[i] \in Base64Chars
          /\ \A i \in (Len(text) - k + 1)..Len(text) : text[i] = "="

\* C21: decoding fails when the text is not valid base64 and when it decodes
\* to no byte; it returns bytes only for valid, non-empty base64 text.
C21_DecodeRejectsMalformed ==
    (codec.done /\ codec.op = "decode")
        => (codec.raised <=> ~(ValidBase64(codec.text) /\ codec.text # <<>>))

\* a sample brought to the nearest value of the signed 16-bit range
ClampedSample(x, dtype) ==
    IF dtype = "float32" THEN Clamp16(Trunc(x * Int16Max, 10)) ELSE Clamp16(x)

\* C22: convert_to_mulaw encodes every sample as the mu-law code of the
\* sample clamped to [-32768, 32767], never of a wrapped-around value.
C22_SamplesClamped ==
    (codec.done /\ codec.op = "to_mulaw")
        => LET pcm == [i \in DOMAIN codec.p |->
                          ClampedSample(codec.p[i], codec.dtype)]
           IN  codec.out
                 = lin2ulaw(IF codec.rate # TWILIO_SAMPLE_RATE
                            THEN ratecv(pcm, codec.rate, TWILIO_SAMPLE_RATE)
                            ELSE pcm)

Abs(x) == IF x < 0 THEN -x ELSE x

\* the round trip keeps the number of samples and moves none by more than tol
RoundTripWithin(tol) ==
    (codec.done /\ codec.op = "round_trip")
        => /\ Len(codec.out) = Len(codec.p)
           /\ \A i \in DOMAIN codec.p : Abs(codec.out[i] - codec.p[i]) <= tol

\* C23 as stated: convert_from_mulaw(convert_to_mulaw(p, 8000, 8000)) has as
\* many samples as p and each differs from the original by at most 256.
C23_RoundTripWithin256 == RoundTripWithin(256)

\* C23 amended: the round trip has as many samples as p and each differs
\* from the original by at most 644.
C23_RoundTripWithin644 == RoundTripWithin(644)

C23_Witness ==
    /\ codec.done
    /\ codec.op = "round_trip"
    /\ Len(codec.p) = 2
    /\ Len(codec.out) = 2
    /\ \E i \in DOMAIN codec.p : Abs(codec.out[i] - codec.p[i]) = 644

====
